---- MODULE Spec2Model ----
(***************************************************************************)
(* User credential handling of the gira API server: POST /users (create)   *)
(* and POST /users/login (login), as exercised by the server package's     *)
(* tests, together with the collaborators the handlers call: the User      *)
(* Store (UserModel.Insert / UserModel.Authenticate) and the Token Issuer  *)
(* (Authenticator.NewTokenForUser).                                        *)
(*                                                                         *)
(* Two connections are served concurrently; every handler is cut at its    *)
(* collaborator calls, which is where requests interleave.                 *)
(***************************************************************************)
EXTENDS Naturals, Sequences, FiniteSets, TLC

VARIABLES requests, users, nextId, nreq

vars == <<requests, users, nextId, nreq>>

\* ------------------------------------------------------------------ bounds
\* Total number of requests submitted in one behaviour.
MaxRequests == 3

\* ------------------------------------------------------------ HTTP statuses
StatusOK == 200
StatusBadRequest == 400
StatusInternalServerError == 500

\* --------------------------------------------------------------- data model
Conns == {"c1", "c2"}

NoBytes == <<>>
NoToken == <<>>

User(id, username, email, password, hashedPassword) ==
    [id |-> id, username |-> username, email |-> email,
     password |-> password, hashedPassword |-> hashedPassword]

EmptyUser == User("", "", "", "", NoBytes)

expectedUser == User("", "test", "test@test.com", "t3$T123", NoBytes)

Usernames == {"test", "other"}
Emails == {"test@test.com", "test@mail.com"}
Passwords == {"t3$T123", "T3$T"}

\* Well-formed create payloads.
ValidUsers ==
    {User("", u, e, p, NoBytes) : u \in Usernames, e \in Emails, p \in Passwords}

\* The malformed create payloads of TestUserCreateValidationError, plus one
\* payload that violates every rule at once.
CreateValidationCases ==
    { User("", "", "test@test.com", "t3$t", NoBytes),
      User("", "test", "", "t3$t", NoBytes),
      User("", "test", "test@test.com", "", NoBytes),
      User("1", "test", "test@test.com", "t3$t", NoBytes),
      User("", "test", "test@test.com", "t3$t", <<"t3$t">>),
      User("1", "", "", "", <<"t3$t">>) }

CreateInputs == ValidUsers \cup CreateValidationCases

\* Login payloads: email and password only (TestUserLoginValidationError),
\* or a whole user record (TestUserLogin marshals expectedUser).
LoginInputs ==
    {User("", "", e, p, NoBytes) : e \in Emails \cup {""}, p \in Passwords \cup {""}}
        \cup {expectedUser}

\* ------------------------------------------------------------ collaborators
\* Password Hasher: salted one-way hash, abstracted to a tagged value.
Hash(plaintext) == <<"bcrypt", plaintext>>

Verify(hashedBytes, plaintext) == hashedBytes = Hash(plaintext)

\* The Store's working copy of a record once the password is hashed.
HashRecord(u) ==
    [u EXCEPT !.password = "", !.hashedPassword = Hash(u.password)]

IdStr == <<"1", "2", "3">>

\* Token Issuer: a signed assertion bound to the user's identity.
Token(u) == <<"token", u.id>>

\* The Store's uniqueness constraints, evaluated atomically at insert time.
InsertResultNoCheck(us, rec) == "none"

InsertResult(us, rec) ==
    IF \E row \in us : row.email = rec.email THEN "EmailConflict"
    ELSE IF \E row \in us : row.username = rec.username THEN "UsernameConflict"
    ELSE "none"

\* UserModel.Authenticate: lookup by email, then password verification.
\* An unknown email and a wrong password come back as one and the same
\* generic error, an error value the caller cannot tell apart by type.
AuthResultLeaky(us, email, password) ==
    IF ~ \E row \in us : row.email = email THEN "NotFound"
    ELSE LET row == CHOOSE row \in us : row.email = email
         IN  IF Verify(row.hashedPassword, password) THEN "none"
             ELSE "AuthenticationFailed"

AuthResult(us, email, password) ==
    IF ~ \E row \in us : row.email = email THEN "AuthenticationFailed"
    ELSE LET row == CHOOSE row \in us : row.email = email
         IN  IF Verify(row.hashedPassword, password) THEN "none"
             ELSE "AuthenticationFailed"

AuthUser(us, email) ==
    IF \E row \in us : row.email = email
    THEN CHOOSE row \in us : row.email = email
    ELSE EmptyUser

\* ------------------------------------------------------------------ handlers
\* Create validation: username, email, password required; id and
\* hashedPassword must not be supplied.
ValidateUserNoHashCheck(u) ==
    /\ u.username # ""
    /\ u.email # ""
    /\ u.password # ""
    /\ u.id = ""

ValidateUser(u) ==
    /\ u.username # ""
    /\ u.email # ""
    /\ u.password # ""
    /\ u.id = ""
    /\ u.hashedPassword = NoBytes

\* Login validation: email and password required, nothing else looked at.
ValidateLoginEmailOnly(u) == u.email # ""

ValidateLogin(u) ==
    /\ u.email # ""
    /\ u.password # ""

\* The record the create handler hands to UserModel.Insert: the decoded
\* payload as it is.
InsertArgHashed(u) == HashRecord(u)

InsertArg(u) == u

\* Status of a create whose Insert returned err.
CreateErrorStatusAllServer(err) ==
    IF err = "none" THEN StatusOK ELSE StatusInternalServerError

CreateErrorStatus(err) ==
    IF err = "none" THEN StatusOK
    ELSE IF err = "EmailConflict" THEN StatusBadRequest
    ELSE IF err = "UsernameConflict" THEN StatusBadRequest
    ELSE StatusInternalServerError

CreateErrorSignal(err) ==
    IF err \in {"EmailConflict", "UsernameConflict"} THEN err ELSE "StorageError"

\* Status of a login whose UserModel.Authenticate returned an error: the
\* handler answers the error it gets, "user not found" included, with 500.
LoginStoreErrorStatus(err) == StatusInternalServerError

\* The error the login fails with: a failed authentication is
\* AuthenticationFailed, any other Store failure an opaque StorageError.
LoginStoreErrorSignal(err) ==
    IF err = "AuthenticationFailed" THEN "AuthenticationFailed"
    ELSE "StorageError"

\* Whether the login handler goes on to the Token Issuer after Authenticate.
ProceedToIssueAlways(err) == TRUE

ProceedToIssue(err) == err = "none"

\* Status of a login whose NewTokenForUser succeeded (ok) or failed.
IssueStatusIgnoreError(ok) == StatusOK

IssueStatus(ok) == IF ok THEN StatusOK ELSE StatusInternalServerError

\* The record a successful create answers with: no secrets echoed back.
CreateResponseUserEcho(inbound, persisted) ==
    [persisted EXCEPT !.password = inbound.password]

CreateResponseUser(inbound, persisted) ==
    [persisted EXCEPT !.password = "", !.hashedPassword = NoBytes]

\* ------------------------------------------------------------ request state
Terminal == {"Persisted", "TokenIssued", "Failed"}

IdleRequest ==
    [n |-> 0, kind |-> "none", user |-> EmptyUser, pc |-> "Idle",
     rec |-> EmptyUser, insertCalls |-> 0, insertArg |-> EmptyUser,
     authCalls |-> 0, issueCalls |-> 0, storeErr |-> "none",
     issueErr |-> "none", status |-> 0, signal |-> "",
     respUser |-> EmptyUser, token |-> NoToken, usersAtCall |-> 0,
     storeFault |-> FALSE, emailKnown |-> FALSE]

NewRequest(n, kind, u) ==
    [IdleRequest EXCEPT !.n = n, !.kind = kind, !.user = u, !.rec = u,
                        !.pc = "Submitted"]

Fail(rq, status, signal) ==
    [rq EXCEPT !.pc = "Failed", !.status = status, !.signal = signal]

Init ==
    /\ requests = [c \in Conns |-> IdleRequest]
    /\ users = {}
    /\ nextId = 1
    /\ nreq = 0

\* A request arrives on a connection that is not busy.
Submit(c) ==
    /\ requests[c].pc \in {"Idle"} \cup Terminal
    /\ nreq < MaxRequests
    /\ \E kind \in {"create", "login"} :
         \E u \in (IF kind = "create" THEN CreateInputs ELSE LoginInputs) :
            requests' = [requests EXCEPT ![c] = NewRequest(nreq + 1, kind, u)]
    /\ nreq' = nreq + 1
    /\ UNCHANGED <<users, nextId>>

\* POST /users: validation.
ValidateCreate(c) ==
    LET rq == requests[c] IN
    /\ rq.kind = "create"
    /\ rq.pc = "Submitted"
    /\ requests' = [requests EXCEPT ![c] =
          IF ValidateUser(rq.user)
          THEN [rq EXCEPT !.pc = "Validated"]
          ELSE Fail(rq, StatusBadRequest, "ValidationError")]
    /\ UNCHANGED <<users, nextId, nreq>>

\* POST /users: the handler calls UserModel.Insert; the Store hashes the
\* password of the record it was handed.
StoreHash(c) ==
    LET rq == requests[c] IN
    /\ rq.kind = "create"
    /\ rq.pc = "Validated"
    /\ requests' = [requests EXCEPT ![c] =
          [rq EXCEPT !.pc = "Hashed",
                     !.insertCalls = rq.insertCalls + 1,
                     !.insertArg = InsertArg(rq.user),
                     !.usersAtCall = Cardinality(users),
                     !.rec = HashRecord(InsertArg(rq.user))]]
    /\ UNCHANGED <<users, nextId, nreq>>

\* POST /users: the Store's INSERT commits or is rejected, Insert returns
\* and the handler answers.
StoreInsert(c) ==
    LET rq == requests[c] IN
    /\ rq.kind = "create"
    /\ rq.pc = "Hashed"
    /\ \E fault \in BOOLEAN :
         LET err == IF fault THEN "Other" ELSE InsertResult(users, rq.rec)
             row == [rq.rec EXCEPT !.id = IdStr[nextId]]
         IN  IF err = "none"
             THEN /\ users' = users \cup {row}
                  /\ nextId' = nextId + 1
                  /\ requests' = [requests EXCEPT ![c] =
                        [rq EXCEPT !.pc = "Persisted",
                                   !.rec = row,
                                   !.status = CreateErrorStatus(err),
                                   !.respUser = CreateResponseUser(rq.user, row)]]
             ELSE /\ requests' = [requests EXCEPT ![c] =
                        Fail([rq EXCEPT !.storeErr = err],
                             CreateErrorStatus(err), CreateErrorSignal(err))]
                  /\ UNCHANGED <<users, nextId>>
    /\ UNCHANGED nreq

\* POST /users/login: validation.
ValidateLoginStep(c) ==
    LET rq == requests[c] IN
    /\ rq.kind = "login"
    /\ rq.pc = "Submitted"
    /\ requests' = [requests EXCEPT ![c] =
          IF ValidateLogin(rq.user)
          THEN [rq EXCEPT !.pc = "Validated"]
          ELSE Fail(rq, StatusBadRequest, "ValidationError")]
    /\ UNCHANGED <<users, nextId, nreq>>

\* POST /users/login: the handler calls UserModel.Authenticate (lookup by
\* email, then password verification) and acts on its result.
StoreAuthenticate(c) ==
    LET rq == requests[c] IN
    /\ rq.kind = "login"
    /\ rq.pc = "Validated"
    /\ \E fault \in BOOLEAN :
         LET err == IF fault THEN "Other"
                    ELSE AuthResult(users, rq.user.email, rq.user.password)
             called == [rq EXCEPT !.authCalls = rq.authCalls + 1,
                                  !.storeErr = err,
                                  !.storeFault = fault,
                                  !.emailKnown =
                                      \E row \in users : row.email = rq.user.email,
                                  !.rec = IF err = "none"
                                          THEN AuthUser(users, rq.user.email)
                                          ELSE EmptyUser]
         IN  requests' = [requests EXCEPT ![c] =
                IF ProceedToIssue(err)
                THEN [called EXCEPT !.pc = "Verified"]
                ELSE Fail(called, LoginStoreErrorStatus(err),
                          LoginStoreErrorSignal(err))]
    /\ UNCHANGED <<users, nextId, nreq>>

\* POST /users/login: the handler calls Authenticator.NewTokenForUser and
\* answers with the token or with a server error.
IssueToken(c) ==
    LET rq == requests[c] IN
    /\ rq.kind = "login"
    /\ rq.pc = "Verified"
    /\ \E ok \in BOOLEAN :
         LET called == [rq EXCEPT !.issueCalls = rq.issueCalls + 1,
                                  !.issueErr = IF ok THEN "none" ELSE "IssueError"]
             status == IssueStatus(ok)
         IN  requests' = [requests EXCEPT ![c] =
                IF status = StatusOK
                THEN [called EXCEPT !.pc = "TokenIssued",
                                    !.status = status,
                                    !.token = IF ok THEN Token(rq.rec) ELSE NoToken]
                ELSE Fail(called, status, "StorageError")]
    /\ UNCHANGED <<users, nextId, nreq>>

Next ==
    \E c \in Conns :
        \/ Submit(c)
        \/ ValidateCreate(c)
        \/ StoreHash(c)
        \/ StoreInsert(c)
        \/ ValidateLoginStep(c)
        \/ StoreAuthenticate(c)
        \/ IssueToken(c)

Spec == Init /\ [][Next]_vars

TypeOK ==
    /\ nreq \in 0..MaxRequests
    /\ nextId \in 1..(Len(IdStr) + 1)
    /\ \A c \in Conns : requests[c].status \in {0, StatusOK, StatusBadRequest, StatusInternalServerError}
\* ------------------------------------------------------------------- claims
Done(rq) == rq.pc \in Terminal

Validated(rq) == rq.pc \notin {"Idle", "Submitted"}

NoSecrets(u) == u.password = "" /\ u.hashedPassword = NoBytes

\* C1: a create whose payload has an empty username, email or password, or
\* a non-empty id or hashedPassword, ends with a ValidationError (400) and
\* the Store's insert is never called for it.
C1_CreateValidationError ==
    \A c \in Conns :
        LET rq == requests[c] IN
        ( /\ rq.kind = "create"
          /\ Validated(rq)
          /\ \/ rq.user.username = ""
             \/ rq.user.email = ""
             \/ rq.user.password = ""
             \/ rq.user.id # ""
             \/ rq.user.hashedPassword # NoBytes )
        => /\ rq.pc = "Failed"
           /\ rq.status = StatusBadRequest
           /\ rq.signal = "ValidationError"
           /\ rq.insertCalls = 0
           /\ rq.insertArg = EmptyUser

C1_Witness ==
    \E c \in Conns :
        /\ requests[c].kind = "create"
        /\ requests[c].pc = "Failed"
        /\ requests[c].user.username = "test"
        /\ requests[c].user.password = "t3$t"
        /\ requests[c].user.hashedPassword # NoBytes
        /\ requests[c].status = StatusBadRequest

\* C2: a login whose email or password is empty ends with a ValidationError
\* (400) and neither the Store nor the Token Issuer is called for it.
C2_LoginValidationError ==
    \A c \in Conns :
        LET rq == requests[c] IN
        ( /\ rq.kind = "login"
          /\ Validated(rq)
          /\ (rq.user.email = "" \/ rq.user.password = "") )
        => /\ rq.pc = "Failed"
           /\ rq.status = StatusBadRequest
           /\ rq.signal = "ValidationError"
           /\ rq.authCalls = 0
           /\ rq.issueCalls = 0

C2_Witness ==
    \E c \in Conns :
        /\ requests[c].kind = "login"
        /\ requests[c].pc = "Failed"
        /\ requests[c].user.email = "test@mail.com"
        /\ requests[c].user.password = ""
        /\ requests[c].status = StatusBadRequest

\* C3: the outcome class of a validated create depends only on the result of
\* the Store's insert: EmailConflict and UsernameConflict are client faults,
\* any other store error is a server fault, success is success; equal store
\* results give equal outcomes and a create never issues a token.
C3_CreateClassification ==
    /\ \A c \in Conns :
          LET rq == requests[c] IN
          (rq.kind = "create")
          => /\ rq.issueCalls = 0
             /\ rq.token = NoToken
             /\ (Done(rq) /\ rq.insertCalls > 0)
                => /\ rq.storeErr = "EmailConflict" => rq.status = StatusBadRequest
                   /\ rq.storeErr = "UsernameConflict" => rq.status = StatusBadRequest
                   /\ rq.storeErr = "Other"
                        => (rq.status = StatusInternalServerError
                            /\ rq.signal = "StorageError")
                   /\ rq.storeErr = "none"
                        => (rq.status = StatusOK /\ rq.pc = "Persisted")
    /\ \A c1, c2 \in Conns :
          ( /\ requests[c1].kind = "create" /\ requests[c2].kind = "create"
            /\ Done(requests[c1]) /\ Done(requests[c2])
            /\ requests[c1].insertCalls > 0 /\ requests[c2].insertCalls > 0
            /\ requests[c1].storeErr = requests[c2].storeErr )
          => /\ requests[c1].status = requests[c2].status
             /\ requests[c1].signal = requests[c2].signal

C3_Witness ==
    \E c1, c2 \in Conns :
        /\ requests[c1].kind = "create" /\ requests[c2].kind = "create"
        /\ requests[c1].storeErr = "UsernameConflict"
        /\ requests[c1].status = StatusBadRequest
        /\ requests[c2].storeErr = "Other"
        /\ requests[c2].status = StatusInternalServerError

\* C4: when validation, store lookup and password verification succeed and
\* the Token Issuer fails, the login ends in a server fault (500) and the
\* response carries no token.
C4_IssuerFailure ==
    \A c \in Conns :
        LET rq == requests[c] IN
        ( /\ rq.kind = "login"
          /\ rq.authCalls > 0
          /\ rq.storeErr = "none"
          /\ rq.issueErr = "IssueError" )
        => /\ rq.pc = "Failed"
           /\ rq.status = StatusInternalServerError
           /\ rq.token = NoToken

C4_Witness ==
    \E c \in Conns :
        /\ requests[c].kind = "login"
        /\ requests[c].rec.id = "1"
        /\ requests[c].issueCalls = 1
        /\ requests[c].issueErr = "IssueError"
        /\ requests[c].status = StatusInternalServerError
\* The password of a login is not the one stored for its email.
WrongPassword(rq) ==
    ~ \E row \in users :
         /\ row.email = rq.user.email
         /\ row.hashedPassword = <<"bcrypt", rq.user.password>>

\* C5: a validated login for which the Store finds no user for the email,
\* or the password does not match the stored hash, ends with
\* AuthenticationFailed, answered in the client-error class (400) and not
\* in the server-error class.
C5_AuthFailureIsClientFault ==
    \A c \in Conns :
        LET rq == requests[c] IN
        ( /\ rq.kind = "login"
          /\ rq.authCalls > 0
          /\ ~ rq.storeFault
          /\ (~ rq.emailKnown \/ WrongPassword(rq)) )
        => /\ rq.signal = "AuthenticationFailed"
           /\ rq.status = StatusBadRequest

Outcome(rq) == <<rq.pc, rq.status, rq.signal, rq.token, rq.respUser>>

\* C6: enumeration resistance: a validated login with an email no user has
\* and a validated login with an existing email and a wrong password have
\* the same caller-visible outcome (status, error signal, token).

C7_NoSecretsInResponse ==
    \A c \in Conns :
        LET rq == requests[c] IN
        /\ (rq.kind = "create" /\ rq.status = StatusOK)
           => /\ rq.respUser.username = rq.user.username
              /\ rq.respUser.email = rq.user.email
              /\ rq.respUser.password = ""
              /\ rq.respUser.hashedPassword = NoBytes
        /\ (rq.status = StatusOK) => NoSecrets(rq.respUser)

C7_Witness ==
    \E c \in Conns :
        /\ requests[c].kind = "create"
        /\ requests[c].status = StatusOK
        /\ requests[c].user = expectedUser
        /\ requests[c].respUser.username = "test"
        /\ requests[c].respUser.email = "test@test.com"

\* C8 (as stated): the record handed to the Store's insert has password
\* cleared and hashedPassword set.
C8_Original_HashedBeforeInsert ==
    \A c \in Conns :
        requests[c].insertCalls > 0
        => /\ requests[c].insertArg.password = ""
           /\ requests[c].insertArg.hashedPassword # NoBytes

\* C8 (amended): the record handed to the Store's insert is the validated
\* inbound record, password set and hashedPassword empty; the Store hashes
\* it, and exactly one of the two fields is populated at every stage:
\* password only while Submitted/Validated and in the insert call,
\* hashedPassword only once Hashed/Persisted and in every stored row.
C8_PlaintextHandedToStore ==
    /\ \A c \in Conns :
          LET rq == requests[c] IN
          (rq.kind = "create")
          => /\ (rq.insertCalls > 0)
                => /\ rq.insertArg = rq.user
                   /\ rq.insertArg.password # ""
                   /\ rq.insertArg.hashedPassword = NoBytes
             /\ (rq.pc = "Validated")
                => (rq.rec.password # "" /\ rq.rec.hashedPassword = NoBytes)
             /\ (rq.pc \in {"Hashed", "Persisted"})
                => (rq.rec.password = "" /\ rq.rec.hashedPassword # NoBytes)
    /\ \A row \in users :
          /\ row.password = ""
          /\ row.hashedPassword # NoBytes
          /\ row.id # ""

C8_Witness ==
    \E c \in Conns :
        /\ requests[c].kind = "create"
        /\ requests[c].pc = "Persisted"
        /\ requests[c].insertArg.password = "t3$T123"
        /\ requests[c].rec \in users
        /\ requests[c].rec.hashedPassword = <<"bcrypt", "t3$T123">>
CreatePath ==
    {<<"Submitted", "Validated">>, <<"Validated", "Hashed">>,
     <<"Hashed", "Persisted">>}

LoginPath ==
    {<<"Submitted", "Validated">>, <<"Validated", "Verified">>,
     <<"Verified", "TokenIssued">>}

PathOf(kind) == IF kind = "create" THEN CreatePath ELSE LoginPath

\* One step of one connection: the same request either stays as it is,
\* moves one stage along its path, or fails from a stage that is not final;
\* a new request only replaces one that has ended.
C9_Step ==
    \A c \in Conns :
        LET a == requests[c]
            b == requests'[c]
        IN  IF b.n = a.n
            THEN \/ b = a
                 \/ /\ <<a.pc, b.pc>> \in PathOf(a.kind)
                    /\ b.kind = a.kind /\ b.user = a.user
                 \/ /\ a.pc \in {"Submitted", "Validated", "Hashed", "Verified"}
                    /\ b.pc = "Failed"
                    /\ b.kind = a.kind /\ b.user = a.user
            ELSE /\ a.pc \in {"Idle"} \cup Terminal
                 /\ b.pc = "Submitted"

C9_Calls ==
    \A c \in Conns :
        LET rq == requests[c] IN
        /\ rq.insertCalls <= 1 /\ rq.authCalls <= 1 /\ rq.issueCalls <= 1
        /\ rq.pc \in {"Submitted", "Validated"}
              => (rq.insertCalls = 0 /\ rq.authCalls = 0 /\ rq.issueCalls = 0)
        /\ rq.pc = "Verified" => rq.issueCalls = 0
        /\ rq.issueCalls = 1
              => /\ rq.kind = "login"
                 /\ rq.user.email # "" /\ rq.user.password # ""
                 /\ rq.authCalls = 1
                 /\ rq.storeErr = "none"
                 /\ \E row \in users :
                       /\ row.email = rq.user.email
                       /\ row.hashedPassword = <<"bcrypt", rq.user.password>>
        /\ rq.token # NoToken
              => /\ rq.pc = "TokenIssued"
                 /\ rq.issueCalls = 1
                 /\ rq.issueErr = "none"
                 /\ rq.rec \in users
                 /\ rq.rec.email = rq.user.email
                 /\ rq.token = <<"token", rq.rec.id>>
        /\ rq.pc = "TokenIssued" => rq.token # NoToken

\* C9: every request follows its path strictly in order (create: Submitted,
\* Validated, Hashed, Persisted; login: Submitted, Validated, Verified,
\* TokenIssued); a failed step is final, nothing is retried; the Token
\* Issuer is called at most once per login and only after validation,
\* lookup and password verification succeeded; a token is in a response
\* only when the issuer succeeded for that request's user.
C9_StrictPath == [](C9_Calls) /\ [][C9_Step]_vars

C9_Witness ==
    \E c1, c2 \in Conns :
        /\ requests[c1].kind = "login"
        /\ requests[c1].pc = "TokenIssued"
        /\ requests[c1].token = <<"token", "1">>
        /\ requests[c2].kind = "login"
        /\ requests[c2].pc = "Failed"
        /\ requests[c2].authCalls = 1
        /\ requests[c2].issueCalls = 0

\* C10: under any interleaving of creates the persisted user set never holds
\* two users with the same email or the same username; of two creates with
\* the same email at most one succeeds and a create rejected for its email
\* or username lost to a stored user; each create makes exactly one insert
\* call and no lookup of its own.
C10_Uniqueness ==
    /\ \A r1, r2 \in users :
          (r1.email = r2.email \/ r1.username = r2.username \/ r1.id = r2.id)
          => r1 = r2
    /\ \A c1, c2 \in Conns :
          ( /\ c1 # c2
            /\ requests[c1].pc = "Persisted" /\ requests[c2].pc = "Persisted" )
          => /\ requests[c1].user.email # requests[c2].user.email
             /\ requests[c1].user.username # requests[c2].user.username
    /\ \A c \in Conns :
          LET rq == requests[c] IN
          (rq.kind = "create")
          => /\ rq.authCalls = 0
             /\ rq.insertCalls <= 1
             /\ (Done(rq) /\ rq.signal # "ValidationError") => rq.insertCalls = 1
             /\ rq.pc = "Persisted" => rq.rec \in users
             /\ rq.storeErr = "EmailConflict"
                   => \E row \in users : row.email = rq.user.email
             /\ rq.storeErr = "UsernameConflict"
                   => \E row \in users : row.username = rq.user.username

C10_Witness ==
    \E c1, c2 \in Conns :
        /\ requests[c1].pc = "Persisted"
        /\ requests[c1].usersAtCall = 0
        /\ requests[c2].kind = "create"
        /\ requests[c2].usersAtCall = 0
        /\ requests[c2].storeErr = "EmailConflict"
        /\ requests[c2].status = StatusBadRequest
        /\ requests[c2].user.email = requests[c1].user.email
        /\ requests[c2].user.username # requests[c1].user.username
====
